---- MODULE Spec2Model ----
(***************************************************************************)
(* QKB lead finder (src/app.py): the search orchestrator run_scrape, the   *)
(* /scrape and /download handlers, the response parser and the record      *)
(* normalizer, as state machines over small input sets.                    *)
(*                                                                         *)
(* A pandas DataFrame is a record [cols, rows]: cols is the sequence of    *)
(* column names, rows the sequence of rows, each a function from the       *)
(* column names to cell values.  Cell values are strings; NULL stands for  *)
(* every missing value of pandas (None, NaN, pd.NA, NaT), which            *)
(* drop_duplicates and sort_values treat as one value.                     *)
(***************************************************************************)
EXTENDS Integers, Sequences, FiniteSets, TLC

VARIABLES
    \* ---- scrape(): the request's form fields (src/app.py:425-436)
    kws, contacts, max_contacts, dedup,
    \* ---- run_scrape(): its locals (src/app.py:289-321)
    pc, frames, df, n,
    \* ---- the outside world as the run sees it
    outcomes,       \* what each search attempt ended with, in order
    search_posts,   \* the keywords POSTed to SEARCH_URL, in order
    doc_posts,      \* the identifiers POSTed to DOC_URL, with the row they were for
    exports,        \* the export directory: file name -> the frame written to it
    ret_df,         \* the frame run_scrape returned to scrape()
    \* ---- download(): the request's path argument and the response
    dl_pc, dl_path, dl_response,
    \* ---- a call of parse_rows_from_response: arguments and outcome
    p_pc, p_body, p_content_type, p_result,
    \* ---- a call of normalize_dataframe: arguments and outcome
    nz_pc, nz_rows, nz_keyword, nz_result,
    \* ---- calls of extract_contacts_for_nipt, one after the other
    ex_pc, ex_nipt, ex_tmp_path, ex_found, ex_result, ex_calls,
    pdfplumber,     \* whether the import of pdfplumber succeeded
    tmp_dir,        \* the files of the temporary directory
    \* ---- concurrent /scrape and /clear-exports requests
    now,            \* the clock, in whole seconds
    files,          \* the export directory: file name -> file contents
    w_pc, w_city, w_dedup, w_fpath, w_response,
    cl_pc, cl_todo, cl_runs

scrape_vars == <<kws, contacts, max_contacts, dedup, pc, frames, df, n,
                 outcomes, search_posts, doc_posts, exports, ret_df>>

download_vars == <<dl_pc, dl_path, dl_response>>

parse_vars == <<p_pc, p_body, p_content_type, p_result>>

normalize_vars == <<nz_pc, nz_rows, nz_keyword, nz_result>>

extract_vars == <<ex_pc, ex_nipt, ex_tmp_path, ex_found, ex_result, ex_calls,
                  pdfplumber, tmp_dir>>

web_vars == <<now, files, w_pc, w_city, w_dedup, w_fpath, w_response,
              cl_pc, cl_todo, cl_runs>>

vars == <<scrape_vars, download_vars, parse_vars, normalize_vars,
          extract_vars, web_vars>>

----------------------------------------------------------------------------
(* Bounds of the model *)

MaxKeywords == 2      \* keywords per request
MaxRows == 2          \* records the registry returns during one run
MaxCap == 2           \* largest max_contacts a request carries
MaxSegments == 3      \* path segments in a download request
MaxItems == 2         \* elements of a JSON array in a response body
MaxRecords == 2       \* raw records handed to normalize_dataframe
MaxFetches == 3       \* calls of extract_contacts_for_nipt, one after the other
MaxRequests == 2      \* concurrent /scrape requests
MaxClock == 1         \* seconds the clock advances while they run
MaxClears == 1        \* /clear-exports requests while they run

----------------------------------------------------------------------------
(* Values *)

NULL == "NULL"

\* Keywords are strings in the code; sort_values orders them, so the model
\* takes them from an ordered set: "a" < "b" (see KeywordRank).
Keywords == {"a", "b"}

\* Identifiers the registry returns: two subjects, and the blank identifier
\* (the empty or whitespace-only string, which str(nipt).strip() empties).
BLANK == ""
Nipts == {"K1", "K2", BLANK}

\* str(e) of the exception a failed search raised: requests' connection
\* error, raise_for_status' HTTPError, parse_rows_from_response's RuntimeError.
Failures == {"network", "http", "parse"}

Range(s) == {s[k] : k \in 1..Len(s)}

Contains(s, x) == \E k \in 1..Len(s) : s[k] = x

----------------------------------------------------------------------------
(* Strings, as sequences of characters *)

RECURSIVE split(_, _)
\* s.split(sep) for a one-character separator.
split(s, sep) ==
    IF ~Contains(s, sep) THEN <<s>>
    ELSE LET k == CHOOSE k \in 1..Len(s) :
                    s[k] = sep /\ \A m \in 1..(k - 1) : s[m] /= sep
         IN <<SubSeq(s, 1, k - 1)>> \o split(SubSeq(s, k + 1, Len(s)), sep)

RECURSIVE strip(_)
\* s.strip(): the whitespace at both ends removed.
strip(s) ==
    IF s = <<>> THEN s
    ELSE IF Head(s) = " " THEN strip(Tail(s))
    ELSE IF s[Len(s)] = " " THEN strip(SubSeq(s, 1, Len(s) - 1))
    ELSE s

\* [x.strip() for x in (s or "").split(";") if x.strip()]; None and "" are
\* both the empty sequence of characters.
_split_people(s) ==
    LET parts == split(s, ";")
        F[k \in 0..Len(parts)] ==
            IF k = 0 THEN <<>>
            ELSE IF strip(parts[k]) /= <<>> THEN Append(F[k - 1], strip(parts[k]))
            ELSE F[k - 1]
    IN F[Len(parts)]

----------------------------------------------------------------------------
(* pandas *)

\* pd.DataFrame(): no columns, no rows.
EmptyFrame == [cols |-> <<>>, rows |-> <<>>]

RECURSIVE AppendNew(_, _)
\* cols followed by the entries of more that it does not hold, in order.
AppendNew(cols, more) ==
    IF more = <<>> THEN cols
    ELSE AppendNew(IF Contains(cols, Head(more)) THEN cols
                   ELSE Append(cols, Head(more)), Tail(more))

RECURSIVE UnionCols(_)
UnionCols(fs) ==
    IF fs = <<>> THEN <<>>
    ELSE AppendNew(UnionCols(SubSeq(fs, 1, Len(fs) - 1)), fs[Len(fs)].cols)

\* A row widened to the columns cols: a column it lacks is NaN.
Widen(row, cols) ==
    [c \in Range(cols) |-> IF c \in DOMAIN row THEN row[c] ELSE NULL]

RECURSIVE ConcatRows(_, _)
ConcatRows(fs, cols) ==
    IF fs = <<>> THEN <<>>
    ELSE [k \in 1..Len(Head(fs).rows) |-> Widen(Head(fs).rows[k], cols)]
         \o ConcatRows(Tail(fs), cols)

\* pd.concat(frames, ignore_index=True): the union of the columns in order
\* of first appearance, the rows of the frames one after the other.
concat(fs) ==
    LET cols == UnionCols(fs)
    IN [cols |-> cols, rows |-> ConcatRows(fs, cols)]

SameKey(r1, r2, subset) == \A c \in subset : r1[c] = r2[c]

\* drop_duplicates(subset=..., keep="first"): a row goes when an earlier row
\* agrees with it on every column of subset (missing values agree).
drop_duplicates(d, subset) ==
    LET keep(k) == \A m \in 1..(k - 1) : ~SameKey(d.rows[m], d.rows[k], subset)
        F[k \in 0..Len(d.rows)] ==
            IF k = 0 THEN <<>>
            ELSE IF keep(k) THEN Append(F[k - 1], d.rows[k]) ELSE F[k - 1]
    IN [cols |-> d.cols, rows |-> F[Len(d.rows)]]

\* The order sort_values puts on a column's values: strings ascending,
\* missing values last.
NiptRank(v) ==
    CASE v = BLANK -> 0
      [] v = "K1" -> 1
      [] v = "K2" -> 2
      [] OTHER -> 9

KeywordRank(v) ==
    CASE v = "a" -> 0
      [] v = "b" -> 1
      [] OTHER -> 9

\* r1 sorts strictly before r2 by ["nipt", "_keyword"].
Before(r1, r2) ==
    \/ NiptRank(r1["nipt"]) < NiptRank(r2["nipt"])
    \/ /\ NiptRank(r1["nipt"]) = NiptRank(r2["nipt"])
       /\ KeywordRank(r1["_keyword"]) < KeywordRank(r2["_keyword"])

RECURSIVE Insert(_, _)
\* row put into the sorted sequence s after every row that does not sort
\* after it: rows with equal keys keep their order.
Insert(s, row) ==
    IF s = <<>> THEN <<row>>
    ELSE IF Before(row, Head(s)) THEN <<row>> \o s
    ELSE <<Head(s)>> \o Insert(Tail(s), row)

\* sort_values(["nipt", "_keyword"]): a stable sort.
sort_values(d) ==
    LET F[k \in 0..Len(d.rows)] ==
            IF k = 0 THEN <<>> ELSE Insert(F[k - 1], d.rows[k])
    IN [cols |-> d.cols, rows |-> F[Len(d.rows)]]

\* df[name] = values: a new last column, or an existing one overwritten.
SetColumn(d, name, values) ==
    LET cols == IF Contains(d.cols, name) THEN d.cols ELSE Append(d.cols, name)
    IN [cols |-> cols,
        rows |-> [k \in 1..Len(d.rows) |->
                    [c \in Range(cols) |->
                        IF c = name THEN values[k] ELSE d.rows[k][c]]]]

----------------------------------------------------------------------------
(* normalize_dataframe *)

\* The columns of the fixed schema, in the declared order.
FixedCols ==
    <<"nipt", "name", "trade_name", "sector", "owners", "legal_form", "status",
      "city", "citizenship", "registered_at">>

\* df.rename(columns={...}): the registry's field names to the schema's.
Rename(key) ==
    CASE key = "nipti" -> "nipt"
      [] key = "emriISubjektit" -> "name"
      [] key = "emriTregtar" -> "trade_name"
      [] key = "sektoriIVeprimtarise" -> "sector"
      [] key = "formaLigjore" -> "legal_form"
      [] key = "statusiISubjektit" -> "status"
      [] key = "qyteti" -> "city"
      [] key = "shtetesia" -> "citizenship"
      [] OTHER -> key

\* pd.to_datetime(..., format="%d/%m/%Y", errors="coerce"): the date a
\* day/month/year text names, NaT for anything else.
to_datetime(v) ==
    CASE v = "15/03/2021" -> "2021-03-15"
      [] v = "01/12/1999" -> "1999-12-01"
      [] OTHER -> NULL

\* The cell of record rec in column c of the renamed frame.
RenamedCell(rec, c) ==
    IF \E key \in DOMAIN rec : Rename(key) = c
    THEN rec[CHOOSE key \in DOMAIN rec : Rename(key) = c]
    ELSE NULL

normalize_dataframe(rows, keyword) ==
    LET keys == UNION {DOMAIN rows[k] : k \in 1..Len(rows)}
        cell(rec, c) ==
            IF c = "_keyword" THEN keyword
            ELSE IF c = "registered_at" /\ (\E key \in keys : Rename(key) = c)
            THEN to_datetime(RenamedCell(rec, c))
            ELSE RenamedCell(rec, c)
        cols == Append(FixedCols, "_keyword")
    IN IF Len(rows) = 0 \/ keys = {}
       THEN [cols |-> <<"_keyword", "nipt", "name">>,
             rows |-> <<[c \in {"_keyword", "nipt", "name"} |->
                            IF c = "_keyword" THEN keyword ELSE NULL]>>]
       ELSE [cols |-> cols,
             rows |-> [k \in 1..Len(rows) |->
                          [c \in Range(cols) |-> cell(rows[k], c)]]]

----------------------------------------------------------------------------
(* run_scrape *)

ErrorFrameNoKeyword(kw, e) ==
    [cols |-> <<"_keyword", "_error">>,
     rows |-> <<[c \in {"_keyword", "_error"} |->
                    IF c = "_keyword" THEN NULL ELSE e]>>]

\* The frame run_scrape accumulates for a keyword whose search raised e.
ErrorFrame(kw, e) ==
    [cols |-> <<"_keyword", "_error">>,
     rows |-> <<[c \in {"_keyword", "_error"} |->
                    IF c = "_keyword" THEN kw ELSE e]>>]

\* The cell of a row in a column, NULL when the frame has no such column.
Cell(row, c) == IF c \in DOMAIN row THEN row[c] ELSE NULL

\* The names differ from record to record, so that a row of the result set
\* tells which record it came from.
RecordName(k, r) == "n" \o ToString(k) \o "_" \o ToString(r)

\* The records one upstream response can carry for the k-th search, when the
\* registry has room records left to return in this run: each has an
\* identifier and a subject name.
Responses(k, room) ==
    UNION {{[r \in 1..len |->
                [key \in {"nipti", "emriISubjektit"} |->
                    IF key = "nipti" THEN ids[r] ELSE RecordName(k, r)]]
            : ids \in [1..len -> Nipts]} : len \in 0..room}

\* The number of upstream records in the frames accumulated so far: the rows
\* that carry a subject name (a placeholder or error row carries none).
RECURSIVE Records(_)
Records(fs) ==
    IF fs = <<>> THEN 0
    ELSE Cardinality({r \in 1..Len(fs[1].rows) :
                         Cell(fs[1].rows[r], "name") /= NULL})
         + Records(Tail(fs))

\* "nipt" in df.columns
HasNipt(d) == Contains(d.cols, "nipt")

\* not df.empty
NotEmpty(d) == Len(d.rows) > 0 /\ Len(d.cols) > 0

\* pd.notna(nipt) and str(nipt).strip()
Fetchable(nipt) == nipt /= NULL /\ nipt /= BLANK

\* What a call of extract_contacts_for_nipt returns: the contacts read from
\* the subject's document, or (None, None) when the document lists none or
\* any step of the fetch fails.  The registry of the model holds a document
\* with contacts for K1 and none for K2.
extract_contacts_for_nipt(nipt) ==
    IF nipt = "K1" THEN <<"x@y.al", "+355 4 123">> ELSE <<NULL, NULL>>

\* The parts of the program a specification leaves alone stay idle.
ScrapeIdle ==
    /\ kws = <<>>
    /\ contacts = FALSE
    /\ max_contacts = 0
    /\ dedup = FALSE
    /\ pc = "idle"
    /\ frames = <<>>
    /\ df = EmptyFrame
    /\ n = 0
    /\ outcomes = <<>>
    /\ search_posts = <<>>
    /\ doc_posts = <<>>
    /\ exports = <<>>
    /\ ret_df = EmptyFrame

DownloadIdle ==
    dl_pc = "idle" /\ dl_path = <<>> /\ dl_response = <<"idle", <<>>>>

ParseIdle ==
    /\ p_pc = "idle"
    /\ p_body = <<>>
    /\ p_content_type = ""
    /\ p_result = <<"idle", "">>

NormalizeIdle ==
    /\ nz_pc = "idle"
    /\ nz_rows = <<>>
    /\ nz_keyword = ""
    /\ nz_result = EmptyFrame

ExtractIdle ==
    /\ ex_pc = "idle"
    /\ ex_nipt = ""
    /\ ex_tmp_path = NULL
    /\ ex_found = <<NULL, NULL>>
    /\ ex_result = <<NULL, NULL>>
    /\ ex_calls = 0
    /\ pdfplumber = FALSE
    /\ tmp_dir = {}

WebIdle ==
    /\ now = 0
    /\ files = <<>>
    /\ w_pc = <<>>
    /\ w_city = <<>>
    /\ w_dedup = <<>>
    /\ w_fpath = <<>>
    /\ w_response = <<>>
    /\ cl_pc = "idle"
    /\ cl_todo = {}
    /\ cl_runs = 0

\* A POST to /scrape.  The keywords are in the state from the start; each
\* of the other form fields enters the state with the step of the handler
\* that first depends on it (RunScrape, ScrapeDedup), and is FALSE or 0
\* until then.
ScrapeInit ==
    /\ kws \in UNION {[1..len -> Keywords] : len \in 1..MaxKeywords}
    /\ contacts = FALSE
    /\ max_contacts = 0
    /\ dedup = FALSE
    /\ pc = "search"
    /\ frames = <<>>
    /\ df = EmptyFrame
    /\ n = 0
    /\ outcomes = <<>>
    /\ search_posts = <<>>
    /\ doc_posts = <<>>
    /\ exports = <<>>
    /\ ret_df = EmptyFrame

Init ==
    /\ ScrapeInit /\ DownloadIdle /\ ParseIdle /\ NormalizeIdle
    /\ ExtractIdle /\ WebIdle

\* One pass of the keyword loop whose search_keyword call returns: the
\* response parsed and normalized is appended to frames.
SearchOk ==
    /\ pc = "search"
    /\ Len(frames) < Len(kws)
    /\ LET k == Len(frames) + 1
       IN \E rows \in Responses(k, MaxRows - Records(frames)) :
            /\ frames' = Append(frames, normalize_dataframe(rows, kws[k]))
            /\ outcomes' = Append(outcomes, "ok")
            /\ search_posts' = Append(search_posts, kws[k])
    /\ UNCHANGED <<kws, contacts, max_contacts, dedup, pc, df, n, doc_posts,
                   exports, ret_df, download_vars, parse_vars, normalize_vars,
                   extract_vars, web_vars>>

\* One pass of the keyword loop whose search_keyword call raises.
SearchFails ==
    /\ pc = "search"
    /\ Len(frames) < Len(kws)
    /\ LET k == Len(frames) + 1
       IN \E e \in Failures :
            /\ frames' = Append(frames, ErrorFrame(kws[k], e))
            /\ outcomes' = Append(outcomes, e)
            /\ search_posts' = Append(search_posts, kws[k])
    /\ UNCHANGED <<kws, contacts, max_contacts, dedup, pc, df, n, doc_posts,
                   exports, ret_df, download_vars, parse_vars, normalize_vars,
                   extract_vars, web_vars>>

\* pd.concat(frames, ignore_index=True) if frames else pd.DataFrame()
Concat(fs) == IF fs /= <<>> THEN concat(fs) ELSE EmptyFrame

RunDedupByNipt(d) ==
    IF HasNipt(d) THEN drop_duplicates(d, {"nipt"}) ELSE d

\* The per-run dedup of run_scrape.
RunDedup(d) ==
    IF HasNipt(d) THEN drop_duplicates(d, {"nipt", "_keyword"}) ELSE d

AttemptsOffByOne(nipt, count, cap) == Fetchable(nipt) /\ count <= cap

\* The contact loop's test for the row it is at.
Attempts(nipt, count, cap) == Fetchable(nipt) /\ count < cap

\* The contact loop over the rows of d under the cap: the two lists it
\* fills, the identifiers it POSTs to DOC_URL (with the row each was for),
\* and its counter.
ContactLoop(d, cap) ==
    LET L[k \in 0..Len(d.rows)] ==
            IF k = 0
            THEN [emails |-> <<>>, phones |-> <<>>, posts |-> <<>>, n |-> 0]
            ELSE LET prev == L[k - 1]
                     nipt == d.rows[k]["nipt"]
                     res == extract_contacts_for_nipt(nipt)
                 IN IF Attempts(nipt, prev.n, cap)
                    THEN [emails |-> Append(prev.emails, res[1]),
                          phones |-> Append(prev.phones, res[2]),
                          posts |-> Append(prev.posts,
                                           [nipt |-> nipt, row |-> k]),
                          n |-> prev.n + 1]
                    ELSE [emails |-> Append(prev.emails, NULL),
                          phones |-> Append(prev.phones, NULL),
                          posts |-> prev.posts,
                          n |-> prev.n]
    IN L[Len(d.rows)]

\* The contact block of run_scrape: the loop and the two new columns, when
\* contact fetching is on and the frame has rows and an identifier column.
WithContacts(d, c, cap) ==
    IF c /\ NotEmpty(d) /\ HasNipt(d)
    THEN LET L == ContactLoop(d, cap)
         IN [df |-> SetColumn(SetColumn(d, "email", L.emails),
                              "telefon", L.phones),
             posts |-> L.posts,
             n |-> L.n]
    ELSE [df |-> d, posts |-> <<>>, n |-> 0]

\* run_scrape after the keyword loop: concatenate, deduplicate by
\* (nipt, _keyword), fetch contacts, write the export file, return.  With
\* contact fetching off the cap plays no part, and one value stands for all.
RunScrape ==
    /\ pc = "search"
    /\ Len(frames) = Len(kws)
    /\ \E d \in {RunDedup(Concat(frames))} :
       \E c \in BOOLEAN :
       \E cap \in IF c THEN -1..MaxCap ELSE {0} :
       \E out \in {WithContacts(d, c, cap)} :
          /\ contacts' = c
          /\ max_contacts' = cap
          /\ df' = out.df
          /\ doc_posts' = out.posts
          /\ n' = out.n
          /\ exports' = Append(exports, [name |-> "export", frame |-> out.df])
          /\ ret_df' = out.df
    /\ pc' = "returned"
    /\ UNCHANGED <<kws, dedup, frames, outcomes, search_posts,
                   download_vars, parse_vars, normalize_vars,
                   extract_vars, web_vars>>

GlobalDedupUnsorted(d) == drop_duplicates(d, {"nipt"})

\* The global dedup of scrape(): by identifier alone, after the sort.
GlobalDedup(d) == drop_duplicates(sort_values(d), {"nipt"})

\* scrape() after run_scrape returned: the optional global dedup and its
\* second export file.
ScrapeDedup ==
    /\ pc = "returned"
    /\ \E g \in BOOLEAN :
          /\ dedup' = g
          /\ IF g /\ HasNipt(df)
             THEN \E d \in {GlobalDedup(df)} :
                     /\ df' = d
                     /\ exports' = Append(exports, [name |-> "export_dedup",
                                                    frame |-> d])
             ELSE UNCHANGED <<df, exports>>
    /\ pc' = "done"
    /\ UNCHANGED <<kws, contacts, max_contacts, frames, n, outcomes,
                   search_posts, doc_posts, ret_df,
                   download_vars, parse_vars, normalize_vars,
                   extract_vars, web_vars>>

Next ==
    \/ SearchOk
    \/ SearchFails
    \/ RunScrape
    \/ ScrapeDedup

Spec == Init /\ [][Next]_vars

----------------------------------------------------------------------------
(* Claims about run_scrape and scrape *)

Min(x, y) == IF x < y THEN x ELSE y

Max(x, y) == IF x > y THEN x ELSE y

RECURSIVE RowsInOrder(_)
\* The rows of the frames one after the other: the concatenation order
\* (keyword order, then upstream row order).
RowsInOrder(fs) ==
    IF fs = <<>> THEN <<>> ELSE Head(fs).rows \o RowsInOrder(Tail(fs))

Concatenated == RowsInOrder(frames)

RunReturned == pc \in {"returned", "done"}

\* The business fields of a row are all null.
NoBusinessFields(row) == \A c \in Range(FixedCols) : Cell(row, c) = NULL

\* C1: run_scrape makes exactly one search attempt per supplied keyword, in
\* the supplied order, whatever fails; it leaves the keyword loop only after
\* the last keyword; each failed keyword contributes exactly one row, which
\* carries that keyword and the failure's description.
C1_OneAttemptPerKeyword ==
    /\ Len(search_posts) <= Len(kws)
    /\ search_posts = SubSeq(kws, 1, Len(search_posts))
    /\ Len(frames) = Len(search_posts)
    /\ Len(outcomes) = Len(search_posts)
    /\ (pc /= "search" => search_posts = kws)
    /\ \A k \in 1..Len(outcomes) :
          outcomes[k] /= "ok" =>
              /\ Len(frames[k].rows) = 1
              /\ Cell(frames[k].rows[1], "_keyword") = kws[k]
              /\ Cell(frames[k].rows[1], "_error") = outcomes[k]

\* C1's case: a run whose first keyword failed and whose second was still
\* searched, successfully.
C1_Witness ==
    /\ pc = "done"
    /\ Len(kws) = 2
    /\ outcomes[1] /= "ok"
    /\ outcomes[2] = "ok"
    /\ search_posts = kws

\* C2: every keyword whose search failed still has, in the result set
\* finally shown and exported, a row with that keyword, a populated error
\* and null business fields.
C2_FailedKeywordsKept ==
    pc = "done" =>
        \A k \in 1..Len(kws) :
            outcomes[k] /= "ok" =>
                \E r \in 1..Len(df.rows) :
                    /\ Cell(df.rows[r], "_keyword") = kws[k]
                    /\ Cell(df.rows[r], "_error") /= NULL
                    /\ NoBusinessFields(df.rows[r])

\* The (identifier, keyword) pair of a row.
PairOf(row) == <<Cell(row, "nipt"), Cell(row, "_keyword")>>

\* The least member of a set of places, 0 when it has none.
Least(S) == IF S = {} THEN 0 ELSE CHOOSE m \in S : \A m2 \in S : m <= m2

\* The place in the rows C of the first row with this row's pair, 0 when
\* there is none.
FirstPlace(C, row) == Least({m \in 1..Len(C) : PairOf(C[m]) = PairOf(row)})

\* The rows of a frame that carry an identifier.
Identified(rows) == {r \in 1..Len(rows) : Cell(rows[r], "nipt") /= NULL}

RowsOf(id) == {r \in 1..Len(ret_df.rows) : Cell(ret_df.rows[r], "nipt") = id}

\* C4: with global dedup on, the final result has at most one row per
\* identifier, every identifier of the run's result keeps a row, and the row
\* kept is the one with the smallest keyword for that identifier; a second
\* export file holds that result.  With global dedup off (or no identifier
\* column to dedup on) the result of run_scrape is left unchanged and no
\* second file is written.
C4_GlobalDedup ==
    pc = "done" =>
        IF dedup /\ HasNipt(ret_df)
        THEN /\ \A id \in Nipts :
                \A had \in {RowsOf(id)} :
                \A kept \in {{r \in 1..Len(df.rows) : df.rows[r]["nipt"] = id}} :
                   /\ Cardinality(kept) <= 1
                   /\ (had /= {} => Cardinality(kept) = 1)
                   /\ \A r \in kept : \E s \in had :
                         /\ df.rows[r] = ret_df.rows[s]
                         /\ \A s2 \in had :
                               KeywordRank(ret_df.rows[s]["_keyword"])
                                   <= KeywordRank(ret_df.rows[s2]["_keyword"])
             /\ Len(exports) = 2
             /\ exports[1].frame = ret_df
             /\ exports[2].frame = df
        ELSE /\ df = ret_df
             /\ Len(exports) = 1
             /\ exports[1].frame = ret_df

\* C4's case: global dedup ran on a result in which an identifier came first
\* under the larger keyword and then under the smaller one.
C4_Witness ==
    /\ pc = "done"
    /\ dedup
    /\ \E r1, r2 \in Identified(ret_df.rows) :
          /\ r1 < r2
          /\ ret_df.rows[r1]["nipt"] = ret_df.rows[r2]["nipt"]
          /\ KeywordRank(ret_df.rows[r2]["_keyword"])
                 < KeywordRank(ret_df.rows[r1]["_keyword"])
    /\ Len(df.rows) < Len(ret_df.rows)

\* The rows of the frame run_scrape returned whose identifier is neither
\* null nor blank, in row order.
Eligible ==
    LET F[k \in 0..Len(ret_df.rows)] ==
            IF k = 0 THEN <<>>
            ELSE IF Fetchable(Cell(ret_df.rows[k], "nipt"))
                 THEN Append(F[k - 1], k) ELSE F[k - 1]
    IN F[Len(ret_df.rows)]

FetchedRows == {doc_posts[m].row : m \in 1..Len(doc_posts)}

\* C5 as stated: the number of document fetches is
\* min(max_contacts, number of rows with a non-null, non-empty identifier).
C5_AttemptsAreMinOfCap ==
    (pc = "returned" /\ contacts) =>
        Len(doc_posts) = Min(max_contacts, Len(Eligible))

\* C5, amended: with contact fetching on, the number of document fetches is
\* min(max(max_contacts, 0), number of rows with a non-null, non-blank
\* identifier); they go to the first such rows in row order; the counter
\* counts every attempt, whatever it yields; every other row has null email
\* and null phone.
C5_ContactCap ==
    /\ n = Len(doc_posts)
    /\ (~contacts => doc_posts = <<>>)
    /\ (pc = "returned" /\ contacts) =>
          \A E \in {Eligible} :
             /\ Len(doc_posts) = Min(Max(max_contacts, 0), Len(E))
             /\ \A m \in 1..Len(doc_posts) :
                   /\ doc_posts[m].row = E[m]
                   /\ doc_posts[m].nipt = ret_df.rows[E[m]]["nipt"]
             /\ \A r \in 1..Len(ret_df.rows) :
                   r \notin FetchedRows =>
                       /\ Cell(ret_df.rows[r], "email") = NULL
                       /\ Cell(ret_df.rows[r], "telefon") = NULL

\* C5's case: the cap was reached before the rows ran out, a row without an
\* identifier was passed over before a fetch, and an attempt that yielded
\* nothing was counted.
C5_Witness ==
    /\ pc = "returned"
    /\ contacts
    /\ max_contacts >= 1
    /\ Len(doc_posts) = max_contacts
    /\ Len(Eligible) > max_contacts
    /\ \E r \in 1..Len(ret_df.rows) :
          /\ ~Fetchable(ret_df.rows[r]["nipt"])
          /\ r < doc_posts[Len(doc_posts)].row
    /\ \E r \in FetchedRows : ret_df.rows[r]["email"] = NULL

\* C10: within one run no identifier is the target of more than one
\* document fetch.
C10_OneFetchPerIdentifier ==
    \A m1, m2 \in 1..Len(doc_posts) :
        m1 /= m2 => doc_posts[m1].nipt /= doc_posts[m2].nipt

----------------------------------------------------------------------------
(* download *)

\* A path is the sequence of its characters.  EXPORT_DIR is the default,
\* "exports", a path relative to the working directory.
EXPORT_DIR == <<"e", "x", "p", "o", "r", "t", "s">>

\* os.getcwd(): the directory the application runs in, "/app".
Cwd == <<"/", "a", "p", "p">>

\* A directory beside the export directory: "exports_old".
ExportsOld == EXPORT_DIR \o <<"_", "o", "l", "d">>

CsvName == <<"x", ".", "c", "s", "v">>

\* The names a request's path is made of.
SegmentNames == {EXPORT_DIR, ExportsOld, CsvName, <<"a", "p", "p">>, <<".">>, <<".", ".">>}

\* path.split("/")
Split(path) == split(path, "/")

RECURSIVE Join(_)
\* "/".join(segments)
Join(segments) ==
    IF segments = <<>> THEN <<>>
    ELSE IF Len(segments) = 1 THEN segments[1]
    ELSE segments[1] \o <<"/">> \o Join(Tail(segments))

\* path.startswith(prefix)
startswith(path, prefix) ==
    Len(path) >= Len(prefix) /\ SubSeq(path, 1, Len(prefix)) = prefix

\* The components posixpath.normpath keeps of an absolute path: empty ones
\* and "." go, ".." takes the component before it away (at the root it goes).
NormComponents(comps) ==
    LET F[k \in 0..Len(comps)] ==
            IF k = 0 THEN <<>>
            ELSE IF comps[k] = <<>> \/ comps[k] = <<".">> THEN F[k - 1]
            ELSE IF comps[k] = <<".", ".">>
                 THEN IF F[k - 1] = <<>> THEN <<>>
                      ELSE SubSeq(F[k - 1], 1, Len(F[k - 1]) - 1)
            ELSE Append(F[k - 1], comps[k])
    IN F[Len(comps)]

\* os.path.abspath(path): joined to the working directory unless absolute,
\* then normalized.
abspath(path) ==
    LET full == IF startswith(path, <<"/">>) THEN path
                ELSE Cwd \o <<"/">> \o path
    IN <<"/">> \o Join(NormComponents(Split(full)))

\* The files below the working directory and beside it.
Files ==
    {abspath(EXPORT_DIR \o <<"/">> \o CsvName),
     abspath(ExportsOld \o <<"/">> \o CsvName),
     abspath(CsvName),
     <<"/">> \o CsvName}

IsDirectory(path) ==
    \E f \in Files : f /= path /\ startswith(f, IF path = <<"/">> THEN path
                                                ELSE path \o <<"/">>)

\* os.path.exists(path)
exists(path) == path \in Files \/ IsDirectory(path)

\* The response of download() to a request for path: 400, 404, the file
\* (send_file), or the 500 that send_file's failure on a directory becomes.
download(path) ==
    LET fpath == abspath(path)
    IN IF fpath = <<>> \/ ~startswith(fpath, abspath(EXPORT_DIR))
       THEN <<"400", <<"invalid path">>>>
       ELSE IF ~exists(fpath) THEN <<"404", <<"not found">>>>
       ELSE IF IsDirectory(fpath) THEN <<"500", <<>>>>
       ELSE <<"200", fpath>>

\* The paths a request can carry: up to MaxSegments names, relative or
\* absolute, and the empty path.
Requests ==
    {<<>>} \cup
    UNION {{Join(segs), <<"/">> \o Join(segs)} :
           segs \in UNION {[1..len -> SegmentNames] : len \in 1..MaxSegments}}

DownloadInit ==
    /\ dl_pc = "request"
    /\ dl_path \in Requests
    /\ dl_response = <<"idle", <<>>>>

\* GET /download?path=...
Download ==
    /\ dl_pc = "request"
    /\ dl_response' = download(dl_path)
    /\ dl_pc' = "responded"
    /\ UNCHANGED <<dl_path, scrape_vars, parse_vars, normalize_vars,
                   extract_vars, web_vars>>

\* The next request.
DownloadAgain ==
    /\ dl_pc = "responded"
    /\ dl_path' \in Requests
    /\ dl_pc' = "request"
    /\ UNCHANGED <<dl_response, scrape_vars, parse_vars, normalize_vars,
                   extract_vars, web_vars>>

InitDownload ==
    /\ ScrapeIdle /\ DownloadInit /\ ParseIdle /\ NormalizeIdle
    /\ ExtractIdle /\ WebIdle

NextDownload == Download \/ DownloadAgain

SpecDownload == InitDownload /\ [][NextDownload]_vars

\* The components of the location a path resolves to.
Resolved(path) == NormComponents(Split(abspath(path)))

\* The location lies in the export directory: the directory's components
\* come first in its own.
InsideExportDir(path) ==
    LET root == Resolved(EXPORT_DIR)
        loc == Resolved(path)
    IN Len(loc) >= Len(root) /\ SubSeq(loc, 1, Len(root)) = root

\* C6: download releases file contents only for a path that resolves to a
\* location inside the export directory, and answers every request whose
\* path resolves outside it with the invalid-path error.
C6_OnlyInsideExportDir ==
    dl_pc = "responded" =>
        /\ (dl_response[1] = "200" => InsideExportDir(dl_path))
        /\ (~InsideExportDir(dl_path) => dl_response = <<"400", <<"invalid path">>>>)

----------------------------------------------------------------------------
(* parse_rows_from_response *)

\* A JSON value is a pair <<type, content>>: <<"list", elements>>,
\* <<"dict", function from its keys to values>>, <<"str", text>>,
\* <<"num", text>>, <<"null", "">>.  What json.loads and ast.literal_eval
\* raise is <<"error", name of the exception>>.
RecordOf(id) == <<"dict", [key \in {"nipti"} |-> <<"str", id>>]>>

\* The elements of the arrays in a response: registry records.
Items == {RecordOf("K1"), RecordOf("K2")}

Arrays == {<<"list", a>> : a \in UNION {[1..len -> Items] : len \in 0..MaxItems}}

\* The DataTables-style wrapper keys, in the order the parser tries them.
WrapperKeys == <<"data", "rows", "aaData", "results">>

\* What a key of a response object can hold: text, an empty array, or an
\* array with the one record that tells which key it came from.
ValuesAt(key) == {<<"str", "x">>, <<"list", <<>>>>, <<"list", <<RecordOf(key)>>>>}

ObjectKeys == Range(WrapperKeys) \cup {"nipti"}

Objects ==
    {<<"dict", f>> :
        f \in UNION {{g \in [keys -> UNION {ValuesAt(key) : key \in keys}] :
                        \A key \in keys : g[key] \in ValuesAt(key)}
                     : keys \in SUBSET ObjectKeys}}

Scalars == {<<"str", "x">>, <<"num", "1">>, <<"null", "">>}

\* A response body, by what the parser's steps see of it: the character its
\* trimmed text starts with, what json.loads makes of the trimmed text, and
\* the first match of JSON_PARSE_RX in it, if any: <<"none", "">>, or
\* <<"match", v>> with v what ast.literal_eval makes of the quoted literal:
\* <<"error", ..>> or <<"text", what json.loads makes of that text>>.
Bodies ==
    LET whole ==
            {[starts |-> "{", json |-> o] : o \in Objects}
            \cup {[starts |-> "[", json |-> a] : a \in Arrays}
            \cup {[starts |-> IF v[1] = "str" THEN "quote" ELSE "other",
                   json |-> v] : v \in Scalars}
            \cup {[starts |-> c, json |-> <<"error", "JSONDecodeError">>]
                  : c \in {"{", "[", "<"}}
        literals ==
            {<<"error", "SyntaxError">>}
            \cup {<<"text", v>> :
                    v \in Arrays \cup Scalars
                          \cup {<<"dict", <<>>>>, RecordOf("K1"),
                                <<"error", "JSONDecodeError">>}}
        scripts == {<<"none", "">>} \cup {<<"match", l>> : l \in literals}
    IN {[starts |-> w.starts, json |-> w.json, script |-> sc] :
            w \in whole, sc \in scripts}

ContentTypes ==
    {"", "text/html; charset=UTF-8", "application/json",
     "Application/JSON; charset=utf-8"}

\* content_type.lower().startswith("application/json")
DeclaresJson(content_type) ==
    content_type \in {"application/json", "Application/JSON; charset=utf-8"}

\* json.loads(raw)
json_loads(body) == body.json

WrappedListLast(obj) ==
    LET hits == {k \in 1..Len(WrapperKeys) :
                    /\ WrapperKeys[k] \in DOMAIN obj[2]
                    /\ obj[2][WrapperKeys[k]][1] = "list"}
    IN IF hits = {} THEN <<"none", "">>
       ELSE obj[2][WrapperKeys[CHOOSE k \in hits : \A m \in hits : k >= m]]

\* The value of the first wrapper key of obj that holds a list, <<"none", "">>
\* when no wrapper key does.
WrappedList(obj) ==
    LET hits == {k \in 1..Len(WrapperKeys) :
                    /\ WrapperKeys[k] \in DOMAIN obj[2]
                    /\ obj[2][WrapperKeys[k]][1] = "list"}
    IN IF hits = {} THEN <<"none", "">>
       ELSE obj[2][WrapperKeys[CHOOSE k \in hits : \A m \in hits : k <= m]]

\* Step 1 of the parser, the direct JSON: <<"return", rows>>, or
\* <<"pass", "">> when the step is skipped, the body does not decode (the
\* exception is swallowed) or it decodes to neither an object nor an array.
DirectJson(body, content_type) ==
    IF body.starts = "{" \/ body.starts = "[" \/ DeclaresJson(content_type)
    THEN LET obj == json_loads(body)
         IN IF obj[1] = "dict"
            THEN IF WrappedList(obj)[1] = "list"
                 THEN <<"return", WrappedList(obj)[2]>>
                 ELSE IF DOMAIN obj[2] /= {} THEN <<"return", <<obj>>>>
                 ELSE <<"return", <<>>>>
            ELSE IF obj[1] = "list" THEN <<"return", obj[2]>>
            ELSE <<"pass", "">>
    ELSE <<"pass", "">>

\* Step 2 of the parser, the embedded JSON.parse("..."): what literal_eval or
\* json.loads raises leaves the function.
EmbeddedJson(body) ==
    LET json_text == body.script[2]
    IN IF json_text[1] = "error" THEN <<"raise", json_text[2]>>
       ELSE LET rows == json_text[2]
            IN IF rows[1] = "error" THEN <<"raise", rows[2]>>
               ELSE IF rows[1] = "list" THEN <<"return", rows[2]>>
               ELSE <<"return", <<>>>>

UnexpectedResponse == <<"raise", "QKB: unexpected search response (no JSON / JSON.parse)">>

parse_rows_from_response(body, content_type) ==
    IF DirectJson(body, content_type)[1] = "return"
    THEN DirectJson(body, content_type)
    ELSE IF body.script[1] = "match" THEN EmbeddedJson(body)
    ELSE UnexpectedResponse

ParseInit ==
    /\ p_pc = "call"
    /\ p_body \in Bodies
    /\ p_content_type \in ContentTypes
    /\ p_result = <<"idle", "">>

\* One call of parse_rows_from_response.
Parse ==
    /\ p_pc = "call"
    /\ p_result' = parse_rows_from_response(p_body, p_content_type)
    /\ p_pc' = "done"
    /\ UNCHANGED <<p_body, p_content_type, scrape_vars, download_vars,
                   normalize_vars, extract_vars, web_vars>>

InitParse ==
    /\ ScrapeIdle /\ DownloadIdle /\ ParseInit /\ NormalizeIdle
    /\ ExtractIdle /\ WebIdle

NextParse == Parse

SpecParse == InitParse /\ [][NextParse]_vars

\* Step 1 applies: the body starts like JSON or the content type declares
\* JSON, and the body decodes.
Step1Decodes ==
    /\ p_body.starts \in {"{", "["} \/ DeclaresJson(p_content_type)
    /\ p_body.json[1] /= "error"

\* Step 1 yields rows: the decoded body is an array or an object.
Step1Yields == Step1Decodes /\ p_body.json[1] \in {"list", "dict"}

\* The wrapper keys of the decoded object that hold a list.
ListKeys ==
    {k \in 1..Len(WrapperKeys) :
        /\ WrapperKeys[k] \in DOMAIN p_body.json[2]
        /\ p_body.json[2][WrapperKeys[k]][1] = "list"}

\* What step 1 returns, by the claim.
Step1Rows ==
    IF p_body.json[1] = "list" THEN p_body.json[2]
    ELSE IF ListKeys /= {}
    THEN p_body.json[2][WrapperKeys[CHOOSE k \in ListKeys :
                                        \A m \in ListKeys : k <= m]][2]
    ELSE IF DOMAIN p_body.json[2] = {} THEN <<>>
    ELSE <<p_body.json>>

\* The quoted literal of the JSON.parse(...) call unescapes and decodes.
LiteralDecodes ==
    /\ p_body.script[1] = "match"
    /\ p_body.script[2][1] = "text"
    /\ p_body.script[2][2][1] /= "error"

\* What step 2 returns for a literal that decodes.
Step2Rows ==
    IF p_body.script[2][2][1] = "list" THEN p_body.script[2][2][2] ELSE <<>>

\* C7 as stated: (1) direct JSON, (2) otherwise a body with a JSON.parse
\* literal returns the decoded literal if it is a list and the empty
\* sequence otherwise, (3) otherwise the call fails with the unexpected-shape
\* error.  A literal that does not decode is taken either way the claim can
\* be read: as "otherwise" of (2), or as no match, (3).
C7_ThreeShapeChain ==
    p_pc = "done" =>
        IF Step1Yields THEN p_result = <<"return", Step1Rows>>
        ELSE IF LiteralDecodes THEN p_result = <<"return", Step2Rows>>
        ELSE IF p_body.script[1] = "match"
        THEN p_result = <<"return", <<>>>> \/ p_result = UnexpectedResponse
        ELSE p_result = UnexpectedResponse

\* C7, amended: as stated, and a body whose JSON.parse literal does not
\* unescape or does not decode as JSON makes the call fail with that
\* decoding error: it neither returns nor reports the unexpected shape.
C7_ThreeShapeChainOrDecodeError ==
    p_pc = "done" =>
        IF Step1Yields THEN p_result = <<"return", Step1Rows>>
        ELSE IF LiteralDecodes THEN p_result = <<"return", Step2Rows>>
        ELSE IF p_body.script[1] = "match"
        THEN /\ p_result[1] = "raise"
             /\ p_result /= UnexpectedResponse
             /\ p_result[2] \in {"SyntaxError", "JSONDecodeError"}
        ELSE p_result = UnexpectedResponse

\* C7's case: an object whose first wrapper key holds text and whose later
\* wrapper keys hold lists was parsed to the first of those lists.
C7_Witness ==
    /\ p_pc = "done"
    /\ p_body.json[1] = "dict"
    /\ DOMAIN p_body.json[2] = ObjectKeys
    /\ p_body.json[2]["data"][1] = "str"
    /\ p_body.json[2]["rows"] = <<"list", <<RecordOf("rows")>>>>
    /\ p_body.json[2]["results"] = <<"list", <<RecordOf("results")>>>>
    /\ p_result = <<"return", <<RecordOf("rows")>>>>

----------------------------------------------------------------------------
(* normalize_dataframe, called on its own *)

\* A raw record of the registry: any of these fields, each with one of a few
\* values.  The administrator/shareholder field is a sequence of characters,
\* the others are strings.
RawKeys == {"nipti", "administrator", "registered_at", "adresa"}

Absent == "absent"

\* "A; B ;C", " ;" and ""
AdministratorValues ==
    {<<"A", ";", " ", "B", " ", ";", "C">>, <<" ", ";">>, <<>>}

RawRecordOf(nipti, administrator, registered_at, adresa) ==
    [key \in {k \in RawKeys :
                \/ k = "nipti" /\ nipti /= Absent
                \/ k = "administrator" /\ administrator /= <<Absent>>
                \/ k = "registered_at" /\ registered_at /= Absent
                \/ k = "adresa" /\ adresa /= Absent} |->
        CASE key = "nipti" -> nipti
          [] key = "administrator" -> administrator
          [] key = "registered_at" -> registered_at
          [] OTHER -> adresa]

RawRecords ==
    {RawRecordOf(ni, ad, re, ar) :
        ni \in {Absent, "K1"},
        ad \in {<<Absent>>} \cup AdministratorValues,
        re \in {Absent, "15/03/2021", "31/31/2021"},
        ar \in {Absent, "Rr. 1"}}

NormalizeInit ==
    /\ nz_pc = "call"
    /\ nz_rows \in UNION {[1..len -> RawRecords] : len \in 0..MaxRecords}
    /\ nz_keyword \in Keywords
    /\ nz_result = EmptyFrame

\* One call of normalize_dataframe.
Normalize ==
    /\ nz_pc = "call"
    /\ nz_result' = normalize_dataframe(nz_rows, nz_keyword)
    /\ nz_pc' = "done"
    /\ UNCHANGED <<nz_rows, nz_keyword, scrape_vars, download_vars, parse_vars,
                   extract_vars, web_vars>>

InitNormalize ==
    /\ ScrapeIdle /\ DownloadIdle /\ ParseIdle /\ NormalizeInit
    /\ ExtractIdle /\ WebIdle

NextNormalize == Normalize

SpecNormalize == InitNormalize /\ [][NextNormalize]_vars

\* C8: every row normalize_dataframe returns has all fixed columns, in the
\* declared order, followed by the keyword; for no records it returns exactly
\* one row, with the keyword and every fixed column null.
C8_FixedColumns ==
    nz_pc = "done" =>
        /\ nz_result.cols = Append(FixedCols, "_keyword")
        /\ \A k \in 1..Len(nz_result.rows) :
              /\ DOMAIN nz_result.rows[k] = Range(FixedCols) \cup {"_keyword"}
              /\ nz_result.rows[k]["_keyword"] = nz_keyword
        /\ (nz_rows = <<>> =>
              /\ Len(nz_result.rows) = 1
              /\ NoBusinessFields(nz_result.rows[1]))

\* The administrator/shareholder field of a raw record, empty when the
\* record has none.
AdministratorOf(rec) ==
    IF "administrator" \in DOMAIN rec THEN rec["administrator"] ELSE <<>>

\* C9: for every raw record passed to normalize_dataframe, the owners field
\* of its row is the record's administrator/shareholder field split on ";",
\* each entry trimmed, empty entries dropped; the empty sequence when the
\* record has no such field.
C9_OwnersSplit ==
    nz_pc = "done" =>
        \A k \in 1..Len(nz_rows) :
            /\ k <= Len(nz_result.rows)
            /\ "owners" \in DOMAIN nz_result.rows[k]
            /\ nz_result.rows[k]["owners"] /= NULL
            /\ nz_result.rows[k]["owners"] = _split_people(AdministratorOf(nz_rows[k]))

----------------------------------------------------------------------------
(* extract_contacts_for_nipt, step by step *)

\* The name tempfile.NamedTemporaryFile(prefix="qkb_", suffix=".pdf") gives
\* the file of the k-th call: a fresh name each time.
TempName(k) == "qkb_" \o ToString(k) \o ".pdf"

\* The contacts the two regular expressions can find in a document's text.
Found == {NULL, "x@y.al"} \X {NULL, "+355 4 123"}

\* The process before its first call: the temporary directory holds no file
\* of the program; the import of pdfplumber succeeded or did not.
ExtractInit ==
    /\ ex_pc = "ready"
    /\ ex_nipt = ""
    /\ ex_tmp_path = NULL
    /\ ex_found = <<NULL, NULL>>
    /\ ex_result = <<NULL, NULL>>
    /\ ex_calls = 0
    /\ pdfplumber \in BOOLEAN
    /\ tmp_dir = {}

\* A call: an empty identifier returns at once.
ExtractCall ==
    /\ ex_pc \in {"ready", "returned"}
    /\ ex_calls < MaxFetches
    /\ \E nipt \in {"", "K1", "K2"} :
          /\ ex_nipt' = nipt
          /\ ex_pc' = IF nipt = "" THEN "returned" ELSE "post"
    /\ ex_calls' = ex_calls + 1
    /\ ex_tmp_path' = NULL
    /\ ex_found' = <<NULL, NULL>>
    /\ ex_result' = <<NULL, NULL>>
    /\ UNCHANGED <<pdfplumber, tmp_dir, scrape_vars, download_vars, parse_vars,
                   normalize_vars, web_vars>>

\* The POST to DOC_URL and the decoding of its answer: a step of it raises
\* (connection, HTTP status, JSON, base64) and the except clause returns
\* (None, None); or the answer carries no document and the call returns
\* (None, None); or the bytes of the PDF are at hand.
ExtractPost ==
    /\ ex_pc = "post"
    /\ \E outcome \in {"raises", "no_data", "pdf_bytes"} :
          ex_pc' = IF outcome = "pdf_bytes" THEN "write" ELSE "returned"
    /\ UNCHANGED <<ex_nipt, ex_tmp_path, ex_found, ex_result, ex_calls,
                   pdfplumber, tmp_dir, scrape_vars, download_vars, parse_vars,
                   normalize_vars, web_vars>>

\* with tempfile.NamedTemporaryFile(..., delete=False) as tmp: the file is
\* not created (the directory refuses it), or it is created and the write
\* raises (the disk is full), or it is created and written.  An exception
\* goes to the except clause, which returns (None, None).
ExtractWriteTemp ==
    /\ ex_pc = "write"
    /\ \E outcome \in {"not_created", "write_raises", "written"} :
          /\ tmp_dir' = IF outcome = "not_created" THEN tmp_dir
                        ELSE tmp_dir \cup {TempName(ex_calls)}
          /\ ex_tmp_path' = IF outcome = "written" THEN TempName(ex_calls)
                            ELSE NULL
          /\ ex_pc' = IF outcome = "written" THEN "read" ELSE "returned"
    /\ UNCHANGED <<ex_nipt, ex_found, ex_result, ex_calls, pdfplumber,
                   scrape_vars, download_vars, parse_vars, normalize_vars,
                   web_vars>>

\* if pdfplumber: open the file, extract the text of its pages, search it.
\* Opening or reading a file that is no PDF raises, and the except clause
\* returns (None, None).  Without pdfplumber nothing is read.
ExtractRead ==
    /\ ex_pc = "read"
    /\ IF pdfplumber
       THEN \/ /\ ex_pc' = "returned"
               /\ UNCHANGED ex_found
            \/ /\ ex_pc' = "cleanup"
               /\ ex_found' \in Found
       ELSE /\ ex_pc' = "cleanup"
            /\ UNCHANGED ex_found
    /\ UNCHANGED <<ex_nipt, ex_tmp_path, ex_result, ex_calls, pdfplumber,
                   tmp_dir, scrape_vars, download_vars, parse_vars,
                   normalize_vars, web_vars>>

\* try: os.unlink(tmp_path) except Exception: pass; return (email, phone)
ExtractCleanup ==
    /\ ex_pc = "cleanup"
    /\ \E unlinked \in BOOLEAN :
          tmp_dir' = IF unlinked THEN tmp_dir \ {ex_tmp_path} ELSE tmp_dir
    /\ ex_result' = ex_found
    /\ ex_pc' = "returned"
    /\ UNCHANGED <<ex_nipt, ex_tmp_path, ex_found, ex_calls, pdfplumber,
                   scrape_vars, download_vars, parse_vars, normalize_vars,
                   web_vars>>

InitExtract ==
    /\ ScrapeIdle /\ DownloadIdle /\ ParseIdle /\ NormalizeIdle
    /\ ExtractInit /\ WebIdle

NextExtract ==
    \/ ExtractCall
    \/ ExtractPost
    \/ ExtractWriteTemp
    \/ ExtractRead
    \/ ExtractCleanup

SpecExtract == InitExtract /\ [][NextExtract]_vars

----------------------------------------------------------------------------
(* Claims about extract_contacts_for_nipt *)

\* C11: when a call of extract_contacts_for_nipt has returned, no temporary
\* file created by this or an earlier call remains.
C11_NoTempFileLeft ==
    ex_pc = "returned" => tmp_dir = {}

----------------------------------------------------------------------------
(* Concurrent /scrape and /clear-exports requests *)

\* The city field of a request.
Cities == {"Tirane", "Durres"}

ScrapeRequests == 1..MaxRequests

\* f"qkb_export_{city}_{ts}.csv" and f"qkb_export_{city}_{ts}_dedup.csv":
\* the name is made of the city, the second of the clock and the suffix.
ExportName(city, ts, suffix) == <<city, ts, suffix>>

\* What request r's to_csv writes: its own rows, as run_scrape returned them
\* ("run") or after the global dedup ("dedup").
OwnRows(r, stage) == <<r, stage>>

\* open(fpath, "w"): the file is created, or its contents are replaced.
WriteFile(name, contents) ==
    [f \in DOMAIN files \cup {name} |->
        IF f = name THEN contents ELSE files[f]]

\* p.unlink(): a file that is already gone raises, which the loop swallows.
RemoveFile(name) == [f \in DOMAIN files \ {name} |-> files[f]]

\* The requests have arrived, each handled by its own thread; the export
\* directory is empty.
WebInit ==
    /\ now = 0
    /\ files = <<>>
    /\ w_pc = [r \in ScrapeRequests |-> "run"]
    /\ w_city \in [ScrapeRequests -> Cities]
    /\ w_dedup \in [ScrapeRequests -> BOOLEAN]
    /\ w_fpath = [r \in ScrapeRequests |-> ExportName("", 0, "")]
    /\ w_response = [r \in ScrapeRequests |-> <<"none">>]
    /\ cl_pc = "idle"
    /\ cl_todo = {}
    /\ cl_runs = 0

\* A second passes.
Tick ==
    /\ now < MaxClock
    /\ now' = now + 1
    /\ UNCHANGED <<files, w_pc, w_city, w_dedup, w_fpath, w_response,
                   cl_pc, cl_todo, cl_runs, scrape_vars, download_vars,
                   parse_vars, normalize_vars, extract_vars>>

\* The end of run_scrape in request r: the timestamp, the file name, to_csv.
RunSave(r) ==
    /\ w_pc[r] = "run"
    /\ LET fpath == ExportName(w_city[r], now, "")
       IN /\ files' = WriteFile(fpath, OwnRows(r, "run"))
          /\ w_fpath' = [w_fpath EXCEPT ![r] = fpath]
    /\ w_pc' = [w_pc EXCEPT ![r] = "saved"]
    /\ UNCHANGED <<now, w_city, w_dedup, w_response, cl_pc, cl_todo, cl_runs,
                   scrape_vars, download_vars, parse_vars, normalize_vars,
                   extract_vars>>

\* The global dedup of request r, when it runs: a second timestamp, the
\* second file, and fpath now names that file.
DedupSave(r) ==
    /\ w_pc[r] = "saved"
    /\ w_dedup[r]
    /\ LET fpath == ExportName(w_city[r], now, "_dedup")
       IN /\ files' = WriteFile(fpath, OwnRows(r, "dedup"))
          /\ w_fpath' = [w_fpath EXCEPT ![r] = fpath]
    /\ w_pc' = [w_pc EXCEPT ![r] = "deduped"]
    /\ UNCHANGED <<now, w_city, w_dedup, w_response, cl_pc, cl_todo, cl_runs,
                   scrape_vars, download_vars, parse_vars, normalize_vars,
                   extract_vars>>

\* Request r is past its last to_csv.
Written(r) ==
    \/ w_pc[r] = "saved" /\ ~w_dedup[r]
    \/ w_pc[r] = "deduped"

\* The response of request r: os.path.getsize(fpath) raises when the file is
\* gone (a 500 response); otherwise the page links to fpath, whose contents
\* at this moment are what the link gives.
Respond(r) ==
    /\ Written(r)
    /\ IF w_fpath[r] \in DOMAIN files
       THEN /\ w_response' = [w_response EXCEPT
                                 ![r] = <<"200", w_fpath[r], files[w_fpath[r]]>>]
            /\ w_pc' = [w_pc EXCEPT ![r] = "responded"]
       ELSE /\ w_response' = [w_response EXCEPT ![r] = <<"500">>]
            /\ w_pc' = [w_pc EXCEPT ![r] = "failed"]
    /\ UNCHANGED <<now, files, w_city, w_dedup, w_fpath, cl_pc, cl_todo,
                   cl_runs, scrape_vars, download_vars, parse_vars,
                   normalize_vars, extract_vars>>

\* A /clear-exports request starts: root.iterdir() lists the directory.
ClearStart ==
    /\ cl_pc = "idle"
    /\ cl_runs < MaxClears
    /\ cl_todo' = DOMAIN files
    /\ cl_pc' = "unlinking"
    /\ cl_runs' = cl_runs + 1
    /\ UNCHANGED <<now, files, w_pc, w_city, w_dedup, w_fpath, w_response,
                   scrape_vars, download_vars, parse_vars, normalize_vars,
                   extract_vars>>

\* One pass of the loop of clear_exports_dir.
ClearUnlink ==
    /\ cl_pc = "unlinking"
    /\ \E p \in cl_todo :
          /\ files' = RemoveFile(p)
          /\ cl_todo' = cl_todo \ {p}
    /\ UNCHANGED <<now, w_pc, w_city, w_dedup, w_fpath, w_response, cl_pc,
                   cl_runs, scrape_vars, download_vars, parse_vars,
                   normalize_vars, extract_vars>>

\* The loop is over: the request is answered.
ClearDone ==
    /\ cl_pc = "unlinking"
    /\ cl_todo = {}
    /\ cl_pc' = "idle"
    /\ UNCHANGED <<now, files, w_pc, w_city, w_dedup, w_fpath, w_response,
                   cl_todo, cl_runs, scrape_vars, download_vars, parse_vars,
                   normalize_vars, extract_vars>>

InitWeb ==
    /\ ScrapeIdle /\ DownloadIdle /\ ParseIdle /\ NormalizeIdle
    /\ ExtractIdle /\ WebInit

NextWeb ==
    \/ Tick
    \/ \E r \in ScrapeRequests : RunSave(r)
    \/ \E r \in ScrapeRequests : DedupSave(r)
    \/ \E r \in ScrapeRequests : Respond(r)
    \/ ClearStart
    \/ ClearUnlink
    \/ ClearDone

SpecWeb == InitWeb /\ [][NextWeb]_vars

----------------------------------------------------------------------------
(* Claims about concurrent requests *)

\* The rows request r's response is to give: those of its last to_csv.
FinalRows(r) == OwnRows(r, IF w_dedup[r] THEN "dedup" ELSE "run")

\* C12: under any interleaving, from the moment a scrape request has written
\* its export file until its response is built, the file it will link to
\* exists and holds that request's own rows; the request does not fail for
\* a missing file, and the link of a completed request gives the request's
\* own rows.
C12_OwnExportFile ==
    \A r \in DOMAIN w_pc :
        /\ Written(r) =>
              /\ w_fpath[r] \in DOMAIN files
              /\ files[w_fpath[r]] = FinalRows(r)
        /\ w_pc[r] /= "failed"
        /\ w_pc[r] = "responded" => w_response[r][3] = FinalRows(r)

====
